---- MODULE Spec2Model ----
(***************************************************************************)
(* A model of strip_musicxml.py: the noise stripper (strip_attributes,     *)
(* strip_tree), the pitch decoder (pitch_name) and the semantic extractor  *)
(* (build_json), over an explicit model of xml.etree.ElementTree elements. *)
(*                                                                         *)
(* An element is a record [tag, attrib, text, kids]:                       *)
(*   tag    - the element's tag, a string ("{ns}print" when namespaced)    *)
(*   attrib - a function from attribute names to string values            *)
(*   text   - an optional string: None (<<>>) or Some(s) (<<s>>)           *)
(*   kids   - the sequence of child elements, in document order            *)
(* Python values that may be None are optionals in the same way.           *)
(* Strings are TLA+ strings; characters are taken with SubSeq.             *)
(***************************************************************************)
EXTENDS Integers, Sequences, FiniteSets, TLC

VARIABLES root,    \* the parsed document tree (main: tree.getroot())
          orig,    \* the tree as it was loaded, before any stripping
          prev,    \* the tree as it was before the latest strip step
          runs,    \* how many times the strip step ran on root
          result   \* what pitch_name / build_json returned or raised

vars == <<root, orig, prev, runs, result>>

-----------------------------------------------------------------------------
(* Optionals and small sequence helpers                                    *)

None == <<>>

Some(v) == <<v>>

IsNone(o) == o = <<>>

Val(o) == o[1]

\* the concatenation of the sequences ss[i], ss[i+1], ...
RECURSIVE FlattenFrom(_, _)
FlattenFrom(ss, i) == IF i > Len(ss) THEN <<>> ELSE ss[i] \o FlattenFrom(ss, i + 1)

Flatten(ss) == FlattenFrom(ss, 1)

Range(s) == {s[i] : i \in 1..Len(s)}

\* [f(x) for x in s]
Map(s, F(_)) == [i \in 1..Len(s) |-> F(s[i])]

\* the empty attribute dictionary
NoAttrib == <<>>

\* element constructor
E(tag, attrib, text, kids) == [tag |-> tag, attrib |-> attrib, text |-> text, kids |-> kids]

-----------------------------------------------------------------------------
(* Python strings and numbers                                              *)
(* A value computed once and used several times is passed to an operator   *)
(* as an argument, the way the program binds it to a local variable.       *)

Char(s, i) == SubSeq(s, i, i)

IsSpace(c) == c \in {" ", "\t", "\n", "\r"}

\* bool(s) for a string
Truthy(s) == s # ""

\* bool(o) for an optional string (None is falsy, '' is falsy)
TruthyOpt(o) == ~IsNone(o) /\ Truthy(Val(o))

RECURSIVE lstrip(_)
lstrip(s) == IF Len(s) > 0 /\ IsSpace(Char(s, 1)) THEN lstrip(SubSeq(s, 2, Len(s))) ELSE s

RECURSIVE rstrip(_)
rstrip(s) == IF Len(s) > 0 /\ IsSpace(Char(s, Len(s))) THEN rstrip(SubSeq(s, 1, Len(s) - 1)) ELSE s

\* str.strip()
strip(s) == rstrip(lstrip(s))

\* position of the last occurrence of character c in s, 0 when absent
RECURSIVE rfind(_, _)
rfind(s, c) == IF Len(s) = 0 THEN 0
               ELSE IF Char(s, Len(s)) = c THEN Len(s)
               ELSE rfind(SubSeq(s, 1, Len(s) - 1), c)

DigitVal == ("0" :> 0) @@ ("1" :> 1) @@ ("2" :> 2) @@ ("3" :> 3) @@ ("4" :> 4) @@
            ("5" :> 5) @@ ("6" :> 6) @@ ("7" :> 7) @@ ("8" :> 8) @@ ("9" :> 9)

IsDigits(s) == Len(s) > 0 /\ \A i \in 1..Len(s) : Char(s, i) \in DOMAIN DigitVal

RECURSIVE DigitsVal(_)
DigitsVal(s) == IF Len(s) = 0 THEN 0
                ELSE 10 * DigitsVal(SubSeq(s, 1, Len(s) - 1)) + DigitVal[Char(s, Len(s))]

RECURSIVE Pow10(_)
Pow10(k) == IF k = 0 THEN 1 ELSE 10 * Pow10(k - 1)

\* outcome of a computation: a value, or the exception it raises
Ok(v) == [exc |-> "none", v |-> v]

Raise(e) == [exc |-> e, v |-> <<>>]

\* the outcome of a step that raises exc, if any, and else returns value
RaiseOr(exc, value) == IF exc # "none" THEN Raise(exc) ELSE Ok(value)

\* g(f(...)): out is the outcome of f, next the outcome of g on its value
Then(out, next) == IF out.exc # "none" THEN out ELSE next

HasSign(s) == Len(s) > 0 /\ Char(s, 1) \in {"+", "-"}

Unsigned(s) == IF HasSign(s) THEN SubSeq(s, 2, Len(s)) ELSE s

SignOf(s) == IF Len(s) > 0 /\ Char(s, 1) = "-" THEN -1 ELSE 1

\* a numeral without its sign: decimal digits
int_of_digits(sign, u) == IF IsDigits(u) THEN Ok(sign * DigitsVal(u)) ELSE Raise("ValueError")

int_of_stripped(t) == int_of_digits(SignOf(t), Unsigned(t))

\* int(s) for a string s: surrounding whitespace, an optional sign, decimal
\* digits; anything else raises ValueError.  (Digit-group underscores and
\* non-ASCII digits are outside the alphabet of the modelled texts.)
py_int(s) == int_of_stripped(strip(s))

\* a float: an exact decimal num/den, an infinity or a NaN
Float(kind, num, den) == [kind |-> kind, num |-> num, den |-> den]

\* digits '.' digits, at least one digit in all
float_of_digits(sign, ip, fp) ==
    IF /\ Len(ip) + Len(fp) > 0
       /\ (ip = "" \/ IsDigits(ip))
       /\ (fp = "" \/ IsDigits(fp))
    THEN Ok(Float("fin", sign * (DigitsVal(ip) * Pow10(Len(fp)) + DigitsVal(fp)), Pow10(Len(fp))))
    ELSE Raise("ValueError")

\* a numeral without its sign, dot the position of its last '.'
float_of_unsigned(sign, u, dot) ==
    IF u \in {"inf", "infinity"} THEN Ok(Float("inf", sign, 1))
    ELSE IF u = "nan" THEN Ok(Float("nan", 0, 1))
    ELSE IF dot = 0 THEN float_of_digits(sign, u, "")
    ELSE float_of_digits(sign, SubSeq(u, 1, dot - 1), SubSeq(u, dot + 1, Len(u)))

float_of_parts(sign, u) == float_of_unsigned(sign, u, rfind(u, "."))

float_of_stripped(t) == float_of_parts(SignOf(t), Unsigned(t))

\* float(s): surrounding whitespace, an optional sign, then inf / nan, or
\* digits with at most one '.'; anything else raises ValueError.
\* (Exponents, underscores and upper case are outside the alphabet of the
\* modelled texts; the texts are short enough for the nearest double to
\* round and truncate like the exact decimal.)
py_float(s) == float_of_stripped(strip(s))

\* the integer nearest to q + r/den, ties to the even one
round_half_even(q, r, den) ==
    IF 2 * r < den THEN q
    ELSE IF 2 * r > den THEN q + 1
    ELSE IF q % 2 = 0 THEN q ELSE q + 1

\* round(x) for a float x: nearest integer, ties to the even one;
\* OverflowError on an infinity, ValueError on a NaN
py_round(x) ==
    IF x.kind = "inf" THEN Raise("OverflowError")
    ELSE IF x.kind = "nan" THEN Raise("ValueError")
    ELSE Ok(round_half_even(x.num \div x.den, x.num % x.den, x.den))

\* int(x) for a float x: truncation toward zero
py_trunc(x) ==
    IF x.kind = "inf" THEN Raise("OverflowError")
    ELSE IF x.kind = "nan" THEN Raise("ValueError")
    ELSE IF x.num >= 0 THEN Ok(x.num \div x.den) ELSE Ok(-((-x.num) \div x.den))

\* str(n) for an integer n
py_str(n) == ToString(n)

-----------------------------------------------------------------------------
(* Configuration                                                           *)

STRIP_ATTRS == {"color", "default-x", "default-y", "font-family", "font-size",
                "font-weight", "font-style", "justify", "valign", "enclosure",
                "print-object"}

STRIP_ELEMENTS == {"page-layout", "system-layout", "staff-layout", "appearance",
                   "credit", "music-font", "word-font", "lyric-font",
                   "lyric-language", "print"}

ACCIDENTALS == ("2" :> "x") @@ ("1" :> "#") @@ ("0" :> "") @@ ("-1" :> "b") @@ ("-2" :> "bb")

\* ACCIDENTALS.get(key, '')
accidental(key) == IF key \in DOMAIN ACCIDENTALS THEN ACCIDENTALS[key] ELSE ""

-----------------------------------------------------------------------------
(* Helpers                                                                 *)

\* the part of tag after the '}' at position at, the whole tag when at = 0
after_brace(tag, at) == IF at > 0 THEN SubSeq(tag, at + 1, Len(tag)) ELSE tag

\* a detag that leaves the namespace on the tag
detag_raw(element) == element.tag

\* tag.split('}')[-1] if '}' in tag else tag
detag(element) == after_brace(element.tag, rfind(element.tag, "}"))

-----------------------------------------------------------------------------
(* xml.etree.ElementTree: the searches the program uses                    *)

\* every element of the sequence els and below it, in document order
RECURSIVE Preorder(_)
Preorder(els) ==
    IF els = <<>> THEN <<>>
    ELSE <<Head(els)>> \o Preorder(Head(els).kids) \o Preorder(Tail(els))

\* every element below el, in document order (el itself excluded)
Descendants(el) == Preorder(el.kids)

\* list(el.iter(tag)): el and every element below it that has this tag
ET_iter(el, tag) ==
    LET hasTag(e) == e.tag = tag
    IN  SelectSeq(Preorder(<<el>>), hasTag)

\* A path is the sequence of its steps: 'a' is <<Child("a")>>, 'a/b' is
\* <<Child("a"), Child("b")>>, './/a' is <<Desc("a")>>, './/a/*' is
\* <<Desc("a"), Child("*")>>.
Child(tag) == [axis |-> "child", tag |-> tag]

Desc(tag) == [axis |-> "desc", tag |-> tag]

\* the elements one step selects from the context element el
Select(el, step) ==
    LET matches(e) == step.tag = "*" \/ e.tag = step.tag
    IN  SelectSeq(IF step.axis = "child" THEN el.kids ELSE Preorder(el.kids), matches)

\* el.findall(path); ET_findall_in does it for every element of a sequence
RECURSIVE ET_findall_in(_, _)
ET_findall(el, path) ==
    IF path = <<>> THEN <<el>> ELSE ET_findall_in(Select(el, Head(path)), Tail(path))

ET_findall_in(els, path) ==
    IF els = <<>> THEN <<>>
    ELSE ET_findall(Head(els), path) \o ET_findall_in(Tail(els), path)

\* the first element of a sequence, or None
first_of(all) == IF all = <<>> THEN None ELSE Some(Head(all))

\* el.find(path): the first match, or None
ET_find(el, path) == first_of(ET_findall(el, path))

\* the text of an optional element ('' when it has no text), or the default
text_of(first, default) ==
    IF IsNone(first) THEN default
    ELSE IF IsNone(Val(first).text) THEN Some("") ELSE Val(first).text

\* el.findtext(path, default)
ET_findtext(el, path, default) == text_of(ET_find(el, path), default)

\* el.get(key, default)
ET_get(el, key, default) ==
    IF key \in DOMAIN el.attrib THEN Some(el.attrib[key]) ELSE default

\* bool(el) for an element: whether it has children
ET_bool(el) == Len(el.kids) # 0

\* for x in (found or []): the children of an optional element
or_empty(found) == IF IsNone(found) \/ ~ET_bool(Val(found)) THEN <<>> ELSE Val(found).kids

-----------------------------------------------------------------------------
(* Pitch decoder                                                           *)

\* str(int(round(x))) for the outcome f of float(alter)
alter_key_of(f) == IF f.exc # "none" THEN f ELSE py_round(f.v)

alter_key_str(r) == IF r.exc # "none" THEN r ELSE Ok(py_str(r.v))

\* str(int(round(float(alter)))), with the exception it may raise
alter_conversion(alter) == alter_key_str(alter_key_of(py_float(alter)))

\* the try block of pitch_name and what follows it: ValueError is caught
\* and gives the key '0'; any other exception propagates
render(step, conv, octave) ==
    IF conv.exc \notin {"none", "ValueError"} THEN Raise(conv.exc)
    ELSE Ok(Some(step \o accidental(IF conv.exc = "ValueError" THEN "0" ELSE conv.v) \o octave))

\* pitch_name(pitch_el), pitch_el an optional element
pitch_name(pitch_el) ==
    IF IsNone(pitch_el) THEN Ok(None)
    ELSE render(Val(ET_findtext(Val(pitch_el), <<Child("step")>>, Some(""))),
                alter_conversion(strip(Val(ET_findtext(Val(pitch_el), <<Child("alter")>>, Some("0"))))),
                Val(ET_findtext(Val(pitch_el), <<Child("octave")>>, Some(""))))

-----------------------------------------------------------------------------
(* XML stripping                                                           *)

\* delete every attribute whose name is in STRIP_ATTRS
strip_attributes(element) ==
    [element EXCEPT !.attrib = [a \in (DOMAIN element.attrib) \ STRIP_ATTRS |-> element.attrib[a]]]

\* list.remove(x) on a list of object identities: drop the first occurrence
RECURSIVE list_remove(_, _)
list_remove(l, x) ==
    IF l = <<>> THEN <<>>
    ELSE IF Head(l) = x THEN Tail(l)
    ELSE <<Head(l)>> \o list_remove(Tail(l), x)

RECURSIVE remove_all(_, _)
remove_all(l, to_remove) ==
    IF to_remove = <<>> THEN l
    ELSE remove_all(list_remove(l, Head(to_remove)), Tail(to_remove))

RECURSIVE strip_tree(_)
RECURSIVE strip_tree_live_walk(_, _)

\* a strip_tree that removes a child while iterating over the same list:
\* the list shifts left under the iterator and the next sibling is skipped
strip_tree_live_walk(parent, i) ==
    IF i > Len(parent.kids) THEN parent
    ELSE IF detag(parent.kids[i]) \in STRIP_ELEMENTS
         THEN strip_tree_live_walk(
                [parent EXCEPT !.kids = SubSeq(parent.kids, 1, i - 1)
                                        \o SubSeq(parent.kids, i + 1, Len(parent.kids))],
                i + 1)
         ELSE strip_tree_live_walk(
                [parent EXCEPT !.kids[i] =
                    strip_tree_live_walk(strip_attributes(parent.kids[i]), 1)],
                i + 1)

strip_tree_live(parent) == strip_tree_live_walk(parent, 1)

\* A child object is identified by its position in the list being iterated.
\* First pass: children with a denied tag are collected in to_remove, every
\* other child has its attributes stripped and is walked, in place.
\* Second pass: parent.remove(child) for every collected child.
strip_tree(parent) ==
    LET n == Len(parent.kids)
        denied(i) == detag(parent.kids[i]) \in STRIP_ELEMENTS
        to_remove == SelectSeq([i \in 1..n |-> i], denied)
        walked == [i \in 1..n |-> IF denied(i) THEN parent.kids[i]
                                  ELSE strip_tree(strip_attributes(parent.kids[i]))]
        left == remove_all([i \in 1..n |-> i], to_remove)
    IN  [parent EXCEPT !.kids = [j \in 1..Len(left) |-> walked[left[j]]]]

-----------------------------------------------------------------------------
(* JSON conversion                                                         *)

\* the first exception in a sequence of outcomes, "none" when there is none
RECURSIVE FirstExc(_)
FirstExc(outs) ==
    IF outs = <<>> THEN "none"
    ELSE IF Head(outs).exc # "none" THEN Head(outs).exc
    ELSE FirstExc(Tail(outs))

\* the values of a sequence of outcomes
RECURSIVE Values(_)
Values(outs) == IF outs = <<>> THEN <<>> ELSE <<Head(outs).v>> \o Values(Tail(outs))

\* dictionary entries that are set only under a condition:
\* if o is not None / if list / if count / if found is not None
OptEntry(key, o) == IF IsNone(o) THEN <<>> ELSE key :> Val(o)

ListEntry(key, list) == IF list = <<>> THEN <<>> ELSE key :> list

CountEntry(key, count) == IF count = 0 THEN <<>> ELSE key :> count

FlagEntry(key, found) == IF IsNone(found) THEN <<>> ELSE key :> TRUE

\* the first truthy optional string of a sequence, None when there is none
RECURSIVE FirstTruthy(_)
FirstTruthy(opts) ==
    IF opts = <<>> THEN None
    ELSE IF TruthyOpt(Head(opts)) THEN Head(opts)
    ELSE FirstTruthy(Tail(opts))

\* the last truthy optional string of a sequence, None when there is none
RECURSIVE LastTruthy(_)
LastTruthy(opts) ==
    IF opts = <<>> THEN None
    ELSE IF TruthyOpt(opts[Len(opts)]) THEN opts[Len(opts)]
    ELSE LastTruthy(SubSeq(opts, 1, Len(opts) - 1))

\* a or b, for optional strings
py_or(a, b) == IF TruthyOpt(a) THEN a ELSE b

\* x if x else None
truthy_or_none(o) == IF TruthyOpt(o) THEN o ELSE None

\* if text: int(text) - the outcome carries None when the text is falsy
int_if_truthy(text) ==
    IF TruthyOpt(text) THEN Then(py_int(Val(text)), Ok(Some(py_int(Val(text)).v))) ELSE Ok(None)

\* if text is not None: int(text)
int_if_present(text) ==
    IF IsNone(text) THEN Ok(None) ELSE Then(py_int(Val(text)), Ok(Some(py_int(Val(text)).v)))

\* the attribute key of every element of a sequence
attr_of(els, key) == [i \in 1..Len(els) |-> ET_get(els[i], key, None)]

SCHEMA == "measures[]{number, key_fifths?, time?, tempo?, dynamics[]?, wedges[]?, " \o
          "pedals[]?, directions[]?, " \o
          "notes[]{voice, staff, pitch|'rest', type, dots?, beam[]?, chord?, tie?, " \o
          "grace?, artic[]?, ornament[]?, slur?, tuplet?}}"

\* title: work-title, else movement-title, else None ('' counts as absent)
title_of(el) ==
    truthy_or_none(py_or(ET_findtext(el, <<Child("work"), Child("work-title")>>, None),
                         ET_findtext(el, <<Child("movement-title")>>, None)))

\* composer / arranger: the text of the last creator with that type
RECURSIVE creator_of(_, _)
creator_of(creators, role) ==
    IF creators = <<>> THEN None
    ELSE IF ET_get(creators[Len(creators)], "type", Some("")) = Some(role)
         THEN creators[Len(creators)].text
         ELSE creator_of(SubSeq(creators, 1, Len(creators) - 1), role)

\* int(number), number the value of measure_el.get('number', 0)
int_or_zero(number) == IF IsNone(number) THEN Ok(0) ELSE py_int(Val(number))

\* int(measure_el.get('number', 0))
number_of(measure_el) == int_or_zero(ET_get(measure_el, "number", None))

\* the text of a child of an optional element
child_text(found, tag) ==
    IF IsNone(found) THEN None ELSE ET_findtext(Val(found), <<Child(tag)>>, None)

\* key signature: the fifths of the first key element below the measure
fifths_of(measure_el) == child_text(ET_find(measure_el, <<Desc("key")>>), "fifths")

\* f"{beats}/{beat_type}" when both are truthy
time_string(beats, beat_type) ==
    IF TruthyOpt(beats) /\ TruthyOpt(beat_type)
    THEN Some(Val(beats) \o "/" \o Val(beat_type)) ELSE None

time_in(time_el) == time_string(child_text(time_el, "beats"), child_text(time_el, "beat-type"))

\* time signature: "beats/beat-type" of the first time element, when both
\* texts are non-empty
time_of(measure_el) == time_in(ET_find(measure_el, <<Desc("time")>>))

\* int(x) for the outcome f of float(per_minute)
trunc_of(f) == IF f.exc # "none" THEN f ELSE py_trunc(f.v)

\* int(float(per_minute))
tempo_conversion(per_minute) == trunc_of(py_float(per_minute))

\* the per-minute text of every metronome of a sequence
RECURSIVE per_minutes(_)
per_minutes(metros) ==
    IF metros = <<>> THEN <<>>
    ELSE <<ET_findtext(Head(metros), <<Child("per-minute")>>, None)>> \o per_minutes(Tail(metros))

\* a tempo loop without its break: every metronome with a non-empty
\* per-minute text sets the tempo again, so the last one stays
tempo_of_last(measure_el) == LastTruthy(per_minutes(ET_iter(measure_el, "metronome")))

\* tempo: the per-minute text that sets it - the loop over
\* measure_el.iter('metronome') ends at the first non-empty one
tempo_of(measure_el) == FirstTruthy(per_minutes(ET_iter(measure_el, "metronome")))

\* m['tempo'] = int(float(per_minute)), for the text that sets the tempo
tempo_if_set(per_minute) ==
    IF IsNone(per_minute) THEN Ok(None)
    ELSE Then(tempo_conversion(Val(per_minute)), Ok(Some(tempo_conversion(Val(per_minute)).v)))

\* [el.text.strip() for el in els if el.text]: the test is on the text as
\* it is, the strip comes after it
RECURSIVE stripped_texts(_)
stripped_texts(els) ==
    IF els = <<>> THEN <<>>
    ELSE (IF TruthyOpt(Head(els).text) THEN <<strip(Val(Head(els).text))>> ELSE <<>>)
         \o stripped_texts(Tail(els))

\* the bare tag name of every element of a sequence
RECURSIVE detagged(_)
detagged(els) == IF els = <<>> THEN <<>> ELSE <<detag(Head(els))>> \o detagged(Tail(els))

\* text directions, from the directions that are children of the measure
directions_of(measure_el) ==
    stripped_texts(ET_findall(measure_el, <<Child("direction"), Desc("words")>>))

\* w = {'type': ...}; if num: w['number'] = int(num)
wedge_dict(type, number) == Then(number, Ok(("type" :> type) @@ OptEntry("number", number.v)))

wedge_record(wedge_el) ==
    wedge_dict(ET_get(wedge_el, "type", None), int_if_truthy(ET_get(wedge_el, "number", None)))

RECURSIVE wedge_records(_)
wedge_records(els) ==
    IF els = <<>> THEN <<>> ELSE <<wedge_record(Head(els))>> \o wedge_records(Tail(els))

\* hairpin wedges: a sequence of outcomes, one per wedge
wedges_of(measure_el) ==
    wedge_records(ET_findall(measure_el, <<Child("direction"), Desc("wedge")>>))

\* p = {'type': ...}; if line: p['line'] = line == 'yes'
pedal_dict(type, line) ==
    ("type" :> type) @@ (IF TruthyOpt(line) THEN "line" :> (line = Some("yes")) ELSE <<>>)

pedal_record(pedal_el) ==
    pedal_dict(ET_get(pedal_el, "type", None), ET_get(pedal_el, "line", None))

RECURSIVE pedal_records(_)
pedal_records(els) ==
    IF els = <<>> THEN <<>> ELSE <<pedal_record(Head(els))>> \o pedal_records(Tail(els))

pedals_of(measure_el) ==
    pedal_records(ET_findall(measure_el, <<Child("direction"), Desc("pedal")>>))

\* a tie loop without its break: the last typed tie child stays
tie_of_last(note_el) == LastTruthy(attr_of(ET_findall(note_el, <<Child("tie")>>), "type"))

\* tie: the type of the first tie child whose type is truthy
tie_of(note_el) == FirstTruthy(attr_of(ET_findall(note_el, <<Child("tie")>>), "type"))

\* slur: the type of the first slur below the note whose type is truthy
slur_of(note_el) == FirstTruthy(attr_of(ET_findall(note_el, <<Desc("slur")>>), "type"))

\* f"{actual}:{normal}" when a tuplet was found and both counts are truthy
ratio(found, actual, normal) ==
    IF found /\ TruthyOpt(actual) /\ TruthyOpt(normal)
    THEN Some(Val(actual) \o ":" \o Val(normal)) ELSE None

\* a tuplet loop whose break is not under the test for 'start': only the
\* first tuplet below the note is looked at
tuplet_of_first_only(note_el) ==
    ratio(Some("start") = Head(attr_of(ET_findall(note_el, <<Desc("tuplet")>>), "type") \o <<None>>),
          ET_findtext(note_el, <<Desc("actual-notes")>>, None),
          ET_findtext(note_el, <<Desc("normal-notes")>>, None))

\* tuplet: the loop ends at the first tuplet whose type is 'start'; the
\* ratio is set there when both counts are non-empty
tuplet_of(note_el) ==
    ratio(Some("start") \in Range(attr_of(ET_findall(note_el, <<Desc("tuplet")>>), "type")),
          ET_findtext(note_el, <<Desc("actual-notes")>>, None),
          ET_findtext(note_el, <<Desc("normal-notes")>>, None))

\* n['pitch']: 'rest' when there is a rest, else the pitch name, if any
pitch_of(rest_el, pitch_el) ==
    IF ~IsNone(rest_el) THEN Ok(Some("rest"))
    ELSE IF ~IsNone(pitch_el) THEN pitch_name(pitch_el)
    ELSE Ok(None)

\* the dictionary n of a note, from the values its statements compute, or
\* the first exception one of them raised
note_dict(voice, staff, pitch, ntype, dots, chord, beams, grace, tie, artics, ornaments, slur, tuplet) ==
    RaiseOr(FirstExc(<<voice, staff, pitch>>),
            OptEntry("voice", voice.v)
            @@ OptEntry("staff", staff.v)
            @@ OptEntry("pitch", pitch.v)
            @@ OptEntry("type", truthy_or_none(ntype))
            @@ CountEntry("dots", dots)
            @@ FlagEntry("chord", chord)
            @@ ListEntry("beam", beams)
            @@ FlagEntry("grace", grace)
            @@ OptEntry("tie", tie)
            @@ ListEntry("artic", artics)
            @@ ListEntry("ornament", ornaments)
            @@ OptEntry("slur", slur)
            @@ OptEntry("tuplet", tuplet))

\* the body of the loop over the notes of a measure: the note's record, or
\* the exception raised while building it
note_record(note_el) ==
    note_dict(int_if_truthy(ET_findtext(note_el, <<Child("voice")>>, None)),
              int_if_truthy(ET_findtext(note_el, <<Child("staff")>>, None)),
              pitch_of(ET_find(note_el, <<Child("rest")>>), ET_find(note_el, <<Child("pitch")>>)),
              ET_findtext(note_el, <<Child("type")>>, None),
              Len(ET_findall(note_el, <<Child("dot")>>)),
              ET_find(note_el, <<Child("chord")>>),
              stripped_texts(ET_findall(note_el, <<Child("beam")>>)),
              ET_find(note_el, <<Child("grace")>>),
              tie_of(note_el),
              detagged(ET_findall(note_el, <<Desc("articulations"), Child("*")>>)),
              detagged(ET_findall(note_el, <<Desc("ornaments"), Child("*")>>)),
              slur_of(note_el),
              tuplet_of(note_el))

RECURSIVE note_records(_)
note_records(els) ==
    IF els = <<>> THEN <<>> ELSE <<note_record(Head(els))>> \o note_records(Tail(els))

\* the markings collected from one direction:
\* for dyn_el in dir_el.find('.//dynamics') or []
dynamics_in(dir_el) == detagged(or_empty(ET_find(dir_el, <<Desc("dynamics")>>)))

RECURSIVE dynamics_in_each(_)
dynamics_in_each(dirs) ==
    IF dirs = <<>> THEN <<>> ELSE dynamics_in(Head(dirs)) \o dynamics_in_each(Tail(dirs))

dynamics_of(measure_el) == dynamics_in_each(ET_findall(measure_el, <<Child("direction")>>))

\* the dictionary m of a measure, from the values its statements compute,
\* or the first exception one of them raised
measure_dict(number, fifths, time, tempo, directions, wedges, pedals, notes, dynamics) ==
    RaiseOr(FirstExc(<<number, fifths, tempo>> \o wedges \o notes),
            ("number" :> number.v)
            @@ OptEntry("key_fifths", fifths.v)
            @@ OptEntry("time", time)
            @@ OptEntry("tempo", tempo.v)
            @@ ListEntry("directions", directions)
            @@ ListEntry("wedges", Values(wedges))
            @@ ListEntry("pedals", pedals)
            @@ ListEntry("dynamics", dynamics)
            @@ ListEntry("notes", Values(notes)))

\* the body of the loop over the measures: the measure's record, or the
\* exception raised while building it
measure_record(measure_el) ==
    measure_dict(number_of(measure_el),
                 int_if_present(fifths_of(measure_el)),
                 time_of(measure_el),
                 tempo_if_set(tempo_of(measure_el)),
                 directions_of(measure_el),
                 wedges_of(measure_el),
                 pedals_of(measure_el),
                 note_records(ET_findall(measure_el, <<Child("note")>>)),
                 dynamics_of(measure_el))

RECURSIVE measure_records(_)
measure_records(els) ==
    IF els = <<>> THEN <<>> ELSE <<measure_record(Head(els))>> \o measure_records(Tail(els))

\* the score dictionary, or the first exception a measure raised
score_dict(title, composer, arranger, measures) ==
    RaiseOr(FirstExc(measures),
            [_schema |-> SCHEMA, title |-> title, composer |-> composer,
             arranger |-> arranger, measures |-> Values(measures)])

\* build_json(root): the score dictionary, or the exception that ends it
build_json(el) ==
    score_dict(title_of(el),
               creator_of(ET_findall(el, <<Child("identification"), Child("creator")>>), "composer"),
               creator_of(ET_findall(el, <<Child("identification"), Child("creator")>>), "arranger"),
               measure_records(ET_iter(el, "measure")))

-----------------------------------------------------------------------------
(* The strip step of main, and the documents it is checked on              *)

MaxNodes == 3

MaxRuns == 2

StripTags == {"note", "print", "{ns}credit"}

StripAttribs == {NoAttrib, ("default-x" :> "10") @@ ("number" :> "1")}

StripTexts == {Some("t")}

\* every ordered tree of exactly n elements / every sequence of trees of n
\* elements in all, labelled from the sets above
RECURSIVE TreesOfSize(_)
RECURSIVE Forests(_)
TreesOfSize(n) ==
    {E(tag, attrib, text, kids) :
        tag \in StripTags, attrib \in StripAttribs, text \in StripTexts, kids \in Forests(n - 1)}

Forests(n) ==
    IF n = 0 THEN {<<>>}
    ELSE UNION {{<<t>> \o f : t \in TreesOfSize(k), f \in Forests(n - k)} : k \in 1..n}

\* every document of at most max elements
StripDocs(max) == UNION {TreesOfSize(n) : n \in 1..max}

NoResult == [exc |-> "none", v |-> "not run"]

InitStrip ==
    /\ root \in StripDocs(MaxNodes)
    /\ orig = root
    /\ prev = root
    /\ runs = 0
    /\ result = NoResult

\* main, stripped-XML branch: strip_attributes(root); strip_tree(root).
\* The output overwrites the input by default, so the step runs again on
\* its own result when the program is run again.
MainXml ==
    /\ runs < MaxRuns
    /\ root' = strip_tree(strip_attributes(root))
    /\ prev' = root
    /\ runs' = runs + 1
    /\ UNCHANGED <<orig, result>>

NextStrip == MainXml

SpecStrip == InitStrip /\ [][NextStrip]_vars

-----------------------------------------------------------------------------
(* Positions in a tree, for stating what the strip step must leave         *)

RECURSIVE Paths(_)
Paths(t) == {<<>>} \cup UNION {{<<i>> \o p : p \in Paths(t.kids[i])} : i \in 1..Len(t.kids)}

RECURSIVE NodeAt(_, _)
NodeAt(t, p) == IF p = <<>> THEN t ELSE NodeAt(t.kids[Head(p)], Tail(p))

\* tag is name, bare or behind a namespace in braces
Names(tag, name) ==
    \/ tag = name
    \/ /\ Len(tag) > Len(name)
       /\ SubSeq(tag, Len(tag) - Len(name), Len(tag)) = "}" \o name

\* the non-root element at p has a layout-only tag
Denied(t, p) == p # <<>> /\ \E name \in STRIP_ELEMENTS : Names(NodeAt(t, p).tag, name)

\* neither the element at p nor any of its ancestors below the root is denied
Survives(t, p) == \A k \in 1..Len(p) : ~Denied(t, SubSeq(p, 1, k))

\* where the surviving element at p sits once the denied siblings are gone:
\* at every level, its rank among the surviving children of its parent
NewPath(t, p) ==
    [k \in 1..Len(p) |->
        Cardinality({j \in 1..p[k] : ~Denied(t, SubSeq(p, 1, k - 1) \o <<j>>)})]

Kept(attrib) == [a \in (DOMAIN attrib) \ STRIP_ATTRS |-> attrib[a]]

\* C1: stripping is idempotent - running the strip step on an already
\* stripped tree removes no further attribute and no further element.
C1_Idempotent == runs >= 2 => root = prev

C1_Witness == runs = 2 /\ prev # orig /\ Len(orig.kids) > Len(prev.kids)

\* C2: the strip step yields exactly the reference result - denied subtrees
\* are gone at any depth, denied attributes are gone from every remaining
\* element including the root, and every other element survives with its
\* tag, text, remaining attributes and sibling order.
C2_StripIsReference ==
    runs = 1 =>
        LET S == {p \in Paths(orig) : Survives(orig, p)}
        IN  /\ Paths(root) = {NewPath(orig, p) : p \in S}
            /\ \A p \in S :
                 LET old == NodeAt(orig, p)
                     new == NodeAt(root, NewPath(orig, p))
                 IN  /\ new.tag = old.tag
                     /\ new.text = old.text
                     /\ new.attrib = Kept(old.attrib)

C2_Witness ==
    /\ runs = 1
    /\ "default-x" \in DOMAIN orig.attrib
    /\ \E p \in Paths(orig) : Len(p) = 2 /\ Denied(orig, p) /\ Survives(orig, <<p[1]>>)
    /\ Len(root.kids) = 1 /\ root.kids[1].kids = <<>>

-----------------------------------------------------------------------------
(* pitch_name on its own, and the pitch elements it is checked on          *)

\* alterations range over -MaxAlter/100 .. MaxAlter/100, in hundredths
MaxAlter == 300

Abs(n) == IF n < 0 THEN -n ELSE n

TwoDigits(n) == IF n < 10 THEN "0" \o ToString(n) ELSE ToString(n)

\* the decimal numeral of h hundredths, e.g. -149 -> "-1.49"
Numeral(h) ==
    (IF h < 0 THEN "-" ELSE "") \o ToString(Abs(h) \div 100) \o "." \o TwoDigits(Abs(h) % 100)

\* an alteration as written in a document: the text of the alter element
\* (None: no alter element) and what it denotes - a number of hundredths,
\* an infinity, or nothing (not a number)
AlterCases ==
    {[text |-> Some(Numeral(h)), kind |-> "number", h |-> h] : h \in -MaxAlter..MaxAlter}
    \cup {[text |-> Some(ToString(k)), kind |-> "number", h |-> 100 * k] : k \in -3..3}
    \cup {[text |-> Some(" " \o ToString(k) \o ".0\n"), kind |-> "number", h |-> 100 * k] : k \in -3..3}
    \cup {[text |-> Some("+1"), kind |-> "number", h |-> 100],
          [text |-> Some(".5"), kind |-> "number", h |-> 50],
          [text |-> Some("2."), kind |-> "number", h |-> 200],
          [text |-> None, kind |-> "number", h |-> 0],
          [text |-> Some("inf"), kind |-> "infinite", h |-> 0],
          [text |-> Some("-inf"), kind |-> "infinite", h |-> 0],
          [text |-> Some("nan"), kind |-> "unparsable", h |-> 0],
          [text |-> Some(""), kind |-> "unparsable", h |-> 0],
          [text |-> Some("sharp"), kind |-> "unparsable", h |-> 0],
          [text |-> Some("1.2.3"), kind |-> "unparsable", h |-> 0],
          [text |-> Some("-"), kind |-> "unparsable", h |-> 0],
          [text |-> Some("."), kind |-> "unparsable", h |-> 0],
          [text |-> Some("1 1"), kind |-> "unparsable", h |-> 0]}

Leaf(tag, text) == E(tag, NoAttrib, text, <<>>)

PitchEl(step, alterText, octave) ==
    E("pitch", NoAttrib, None,
      <<Leaf("step", Some(step))>>
      \o (IF IsNone(alterText) THEN <<>> ELSE <<Leaf("alter", alterText)>>)
      \o <<Leaf("octave", Some(octave))>>)

PitchEls == {PitchEl(step, c.text, octave) : step \in {"C", "G"}, c \in AlterCases, octave \in {"4"}}

InitPitch ==
    /\ root \in PitchEls
    /\ orig = root
    /\ prev = root
    /\ runs = 0
    /\ result = NoResult

CallPitchName ==
    /\ runs = 0
    /\ result' = pitch_name(Some(root))
    /\ runs' = 1
    /\ UNCHANGED <<root, orig, prev>>

NextPitch == CallPitchName

SpecPitch == InitPitch /\ [][NextPitch]_vars

\* the fixed accidental mapping, as the claim states it
Symbol(k) == CASE k = -2 -> "bb" [] k = -1 -> "b" [] k = 0 -> "" [] k = 1 -> "#"
               [] k = 2 -> "x" [] OTHER -> ""

\* the integers nearest to h hundredths (two of them at an exact half)
Nearest(h) == {k \in -4..4 : \A j \in -4..4 : Abs(100 * k - h) <= Abs(100 * j - h)}

AlterTextOf(el) == ET_findtext(el, <<Child("alter")>>, None)

\* what the claim allows pitch_name to return for the pitch element el
Rendered(el) ==
    LET step == Val(ET_findtext(el, <<Child("step")>>, Some("")))
        octave == Val(ET_findtext(el, <<Child("octave")>>, Some("")))
        c == CHOOSE c \in AlterCases : c.text = AlterTextOf(el)
    IN  IF c.kind = "number" THEN {step \o Symbol(k) \o octave : k \in Nearest(c.h)}
        ELSE {step \o octave}

\* C3: pitch_name renders step, accidental, octave, the accidental being the
\* symbol of the alteration rounded to the nearest integer (none outside
\* -2..2), and an alteration that is not a number renders as natural; it
\* never raises.
C3_PitchRendered ==
    runs = 1 => /\ result.exc = "none"
                /\ Val(result.v) \in Rendered(root)

\* the same, for every alteration but an infinite one
C3_RenderedUnlessInfinite ==
    (runs = 1 /\ AlterTextOf(root) \notin {Some("inf"), Some("-inf")})
        => /\ result.exc = "none"
           /\ Val(result.v) \in Rendered(root)

C3_InfiniteRaises ==
    (runs = 1 /\ AlterTextOf(root) \in {Some("inf"), Some("-inf")})
        => result.exc = "OverflowError"

-----------------------------------------------------------------------------
(* build_json as run by main, and the documents it is checked on           *)

\* main, JSON branch: data = build_json(root)
MainJson ==
    /\ runs = 0
    /\ result' = build_json(root)
    /\ runs' = 1
    /\ UNCHANGED <<root, orig, prev>>

NextJson == MainJson

InitWith(docs) ==
    /\ root \in docs
    /\ orig = root
    /\ prev = root
    /\ runs = 0
    /\ result = NoResult

\* every sequence over pool of length at most n
SeqsUpTo(pool, n) == UNION {[1..k -> pool] : k \in 0..n}

Attr(key, value) == IF IsNone(value) THEN NoAttrib ELSE key :> Val(value)

Node(tag, kids) == E(tag, NoAttrib, None, kids)

Measure(number, kids) == E("measure", Attr("number", number), None, kids)

Doc(measures) ==
    Node("score-partwise", <<E("part", "id" :> "P1", None, measures)>>)

\* the measure elements of a document and, when build_json returned, their
\* records
MeasureEls == ET_iter(root, "measure")

Returned == runs = 1 /\ result.exc = "none"

Records == result.v.measures

\* ---- measure numbers

MaxMeasures == 2

MaxNumber == 12

\* a number attribute as written (None: no attribute) and the integer it
\* denotes, if any
NumberCases ==
    {[text |-> Some(ToString(k)), parsable |-> TRUE, n |-> k] : k \in 0..MaxNumber}
    \cup {[text |-> None, parsable |-> FALSE, n |-> 0],
          [text |-> Some(" 7 "), parsable |-> TRUE, n |-> 7],
          [text |-> Some("-3"), parsable |-> TRUE, n |-> -3],
          [text |-> Some("X1"), parsable |-> FALSE, n |-> 0],
          [text |-> Some("1a"), parsable |-> FALSE, n |-> 0],
          [text |-> Some(""), parsable |-> FALSE, n |-> 0],
          [text |-> Some("1.5"), parsable |-> FALSE, n |-> 0]}

NumberCaseOf(measure_el) ==
    CHOOSE c \in NumberCases : c.text = ET_get(measure_el, "number", None)

\* documents of one to max measures, each with a number attribute as above
NumberDocs(max) ==
    {Doc([i \in 1..Len(cs) |-> Measure(cs[i].text, <<>>)]) :
        cs \in SeqsUpTo(NumberCases, max) \ {<<>>}}

InitNumber == InitWith(NumberDocs(MaxMeasures))

SpecNumber == InitNumber /\ [][NextJson]_vars

\* C5: the number of every measure record is the integer parsed from the
\* number attribute, 0 when the attribute is absent or is not an integer,
\* and build_json does not fail on such a measure.
C5_NumberDefaultsToZero ==
    runs = 1 =>
        /\ result.exc = "none"
        /\ Len(Records) = Len(MeasureEls)
        /\ \A i \in 1..Len(MeasureEls) :
             Records[i].number = NumberCaseOf(MeasureEls[i]).n

\* what holds: absent and integer number attributes
C5_ParsableOrAbsent ==
    (runs = 1 /\ \A i \in 1..Len(MeasureEls) :
                    LET c == NumberCaseOf(MeasureEls[i]) IN c.parsable \/ IsNone(c.text))
        => /\ result.exc = "none"
           /\ Len(Records) = Len(MeasureEls)
           /\ \A i \in 1..Len(MeasureEls) :
                Records[i].number = NumberCaseOf(MeasureEls[i]).n

C5_UnparsableRaises ==
    (runs = 1 /\ \E i \in 1..Len(MeasureEls) :
                    LET c == NumberCaseOf(MeasureEls[i]) IN ~c.parsable /\ ~IsNone(c.text))
        => result.exc = "ValueError"

\* ---- directions: words, dynamics, metronome markings

MaxItems == 3

Words(text) == Leaf("words", text)

Dynamics(markings) == Node("dynamics", [i \in 1..Len(markings) |-> Leaf(markings[i], None)])

Metronome(per_minute) ==
    Node("metronome",
         <<Leaf("beat-unit", Some("quarter"))>>
         \o (IF IsNone(per_minute) THEN <<>> ELSE <<Leaf("per-minute", per_minute)>>))

\* the items the directions of the documents are made of, per field
WordsItems ==
    {Words(Some(" rit. ")), Words(Some("dim.")), Words(Some("  ")), Words(None),
     Dynamics(<<"p">>)}

DynamicsItems ==
    {Dynamics(<<>>), Dynamics(<<"p">>), Dynamics(<<"sf", "{ns}f">>), Dynamics(<<"mf">>),
     Words(Some("dim."))}

MetronomeItems ==
    {Metronome(None), Metronome(Some("")), Metronome(Some("96")), Metronome(Some("120.7")),
     Metronome(Some("fast")), Words(Some("dim."))}

\* a direction holds each of its items in a direction-type of its own
Direction(items) ==
    Node("direction", [i \in 1..Len(items) |-> Node("direction-type", <<items[i]>>)])

\* every sequence of directions holding exactly n items of the pool in all
RECURSIVE DirectionSeqs(_, _)
DirectionSeqs(pool, n) ==
    IF n = 0 THEN {<<>>}
    ELSE UNION {{<<Direction(items)>> \o rest :
                    items \in [1..k -> pool], rest \in DirectionSeqs(pool, n - k)} :
                k \in 1..n}

\* a direction that is not a child of the measure
NestedDirection ==
    Node("part-group",
         <<Direction(<<Words(Some("nested")), Dynamics(<<"pp">>), Metronome(Some("60"))>>)>>)

\* one-measure documents: directions of at most MaxItems items in all,
\* with or without a nested direction before them
DirectionDocs(pool) ==
    {Doc(<<Measure(Some("1"), before \o ds)>>) :
        before \in {<<>>, <<NestedDirection>>},
        ds \in UNION {DirectionSeqs(pool, n) : n \in 0..MaxItems}}

InitWords == InitWith(DirectionDocs(WordsItems))

SpecWords == InitWords /\ [][NextJson]_vars

InitDynamics == InitWith(DirectionDocs(DynamicsItems))

SpecDynamics == InitDynamics /\ [][NextJson]_vars

InitTempo == InitWith(DirectionDocs(MetronomeItems))

SpecTempo == InitTempo /\ [][NextJson]_vars

\* the directions that are children of the measure element
DirectChildDirections(measure_el) ==
    LET isDirection(e) == e.tag = "direction"
    IN  SelectSeq(measure_el.kids, isDirection)

Field(record, key) == IF key \in DOMAIN record THEN Some(record[key]) ELSE None

\* a list-valued field as the claims state it: absent when the list is empty
ListField(list) == IF list = <<>> THEN None ELSE Some(list)

HasContent(text) == ~IsNone(text) /\ strip(Val(text)) # ""

\* C8: the directions of a measure record are the trimmed texts of the words
\* elements of the measure's child directions, in document order, every
\* empty or whitespace-only text skipped; no entry is the empty string and
\* the field is absent when nothing is left.
C8_DirectionsSkipBlank ==
    Returned =>
        \A i \in 1..Len(MeasureEls) :
            LET dirs == DirectChildDirections(MeasureEls[i])
                texts(d) ==
                    LET ws == SelectSeq(Descendants(d), LAMBDA e : e.tag = "words" /\ HasContent(e.text))
                    IN  [j \in 1..Len(ws) |-> strip(Val(ws[j].text))]
            IN  Field(Records[i], "directions") = ListField(Flatten(Map(dirs, texts)))

\* what holds: the texts that are neither absent nor empty, blank ones included
C8_DirectionsKeepBlank ==
    Returned =>
        \A i \in 1..Len(MeasureEls) :
            LET dirs == DirectChildDirections(MeasureEls[i])
                texts(d) ==
                    LET ws == SelectSeq(Descendants(d), LAMBDA e : e.tag = "words" /\ TruthyOpt(e.text))
                    IN  [j \in 1..Len(ws) |-> strip(Val(ws[j].text))]
            IN  Field(Records[i], "directions") = ListField(Flatten(Map(dirs, texts)))

\* C9: the dynamics of a measure record are the tag names of every marking
\* inside every dynamics container below the measure's child directions, in
\* document order; none is omitted, also when one direction holds more than
\* one container.
C9_AllDynamics ==
    Returned =>
        \A i \in 1..Len(MeasureEls) :
            LET dirs == DirectChildDirections(MeasureEls[i])
                markings(d) ==
                    LET cs == SelectSeq(Descendants(d), LAMBDA e : e.tag = "dynamics")
                    IN  Flatten([j \in 1..Len(cs) |-> Map(cs[j].kids, detag)])
            IN  Field(Records[i], "dynamics") = ListField(Flatten(Map(dirs, markings)))

\* what holds: the markings of the first container of every direction
C9_FirstContainerOnly ==
    Returned =>
        \A i \in 1..Len(MeasureEls) :
            LET dirs == DirectChildDirections(MeasureEls[i])
                markings(d) ==
                    LET cs == SelectSeq(Descendants(d), LAMBDA e : e.tag = "dynamics")
                    IN  IF cs = <<>> THEN <<>> ELSE Map(cs[1].kids, detag)
            IN  Field(Records[i], "dynamics") = ListField(Flatten(Map(dirs, markings)))

\* the metronome markings of a measure, in document order
Metronomes(measure_el) ==
    SelectSeq(<<measure_el>> \o Descendants(measure_el), LAMBDA e : e.tag = "metronome")

\* the per-minute text of a metronome marking, None when it has none
PerMinute(metro) ==
    LET pm == SelectSeq(metro.kids, LAMBDA e : e.tag = "per-minute")
    IN  IF pm = <<>> THEN None ELSE pm[1].text

\* the tempo a per-minute text denotes: its number, truncated
TempoValue(text) == tempo_conversion(Val(text)).v

\* C10 as stated: the tempo is read from the first metronome marking of the
\* measure; no later marking ever determines it.
C10_FirstMetronome ==
    Returned =>
        \A i \in 1..Len(MeasureEls) :
            LET ms == Metronomes(MeasureEls[i])
            IN  "tempo" \in DOMAIN Records[i] =>
                    /\ TruthyOpt(PerMinute(ms[1]))
                    /\ Records[i].tempo = TempoValue(PerMinute(ms[1]))

\* C10 amended: the tempo is read from the first metronome marking that has
\* a non-empty per-minute text; markings before it are skipped, markings
\* after it are ignored, and without such a marking there is no tempo.
C10_FirstMetronomeWithPerMinute ==
    Returned =>
        \A i \in 1..Len(MeasureEls) :
            LET ms == SelectSeq(Metronomes(MeasureEls[i]), LAMBDA m : TruthyOpt(PerMinute(m)))
            IN  Field(Records[i], "tempo") =
                    IF ms = <<>> THEN None ELSE Some(TempoValue(PerMinute(ms[1])))

C10_Witness ==
    /\ Returned
    /\ LET ms == Metronomes(MeasureEls[1])
       IN  /\ Len(ms) = 3
           /\ PerMinute(ms[1]) = None
           /\ PerMinute(ms[2]) = Some("120.7")
           /\ PerMinute(ms[3]) = Some("96")
    /\ Records[1].tempo = 120

\* ---- notes: ties, slurs, tuplets

MaxNoteItems == 3

Tie(type) == E("tie", Attr("type", type), None, <<>>)

\* slurs and tuplets sit in a notations element
Slur(type) == Node("notations", <<E("slur", Attr("type", type), None, <<>>)>>)

Tuplet(type) == Node("notations", <<E("tuplet", Attr("type", type), None, <<>>)>>)

TimeModification(actual, normal) ==
    Node("time-modification",
         (IF IsNone(actual) THEN <<>> ELSE <<Leaf("actual-notes", actual)>>)
         \o (IF IsNone(normal) THEN <<>> ELSE <<Leaf("normal-notes", normal)>>))

NoteItems ==
    {Tie(Some("start")), Tie(Some("stop")), Tie(None), Tie(Some("")),
     Slur(Some("start")), Slur(Some("stop")), Slur(None),
     Tuplet(Some("start")), Tuplet(Some("stop")),
     TimeModification(Some("3"), Some("2")), TimeModification(Some("5"), None),
     TimeModification(Some(""), Some("4"))}

\* one-measure documents of one note of at most max items
NoteDocs(max) ==
    {Doc(<<Measure(Some("1"), <<Node("note", items)>>)>>) :
        items \in SeqsUpTo(NoteItems, max)}

InitNote == InitWith(NoteDocs(MaxNoteItems))

SpecNote == InitNote /\ [][NextJson]_vars

\* the note elements of measure i and their records
NoteEls(i) == SelectSeq(MeasureEls[i].kids, LAMBDA e : e.tag = "note")

NoteRecords(i) == IF "notes" \in DOMAIN Records[i] THEN Records[i].notes ELSE <<>>

TieMarkers(note_el) == SelectSeq(note_el.kids, LAMBDA e : e.tag = "tie")

SlurMarkers(note_el) == SelectSeq(Descendants(note_el), LAMBDA e : e.tag = "slur")

TupletMarkers(note_el) == SelectSeq(Descendants(note_el), LAMBDA e : e.tag = "tuplet")

HasType(e) == "type" \in DOMAIN e.attrib

HasNonEmptyType(e) == HasType(e) /\ e.attrib["type"] # ""

TypeOfFirst(markers) == IF markers = <<>> THEN None ELSE Some(Head(markers).attrib["type"])

\* C6 as stated: the tie is the type of the first tie marker that carries a
\* type attribute, the slur is the type of the first slur marker of the
\* note; a note without a typed marker has no such field.  (An empty type
\* attribute is taken as no type.)
C6_FirstWins ==
    Returned =>
        \A i \in 1..Len(MeasureEls) :
            /\ Len(NoteRecords(i)) = Len(NoteEls(i))
            /\ \A j \in 1..Len(NoteEls(i)) :
                 LET note_el == NoteEls(i)[j]
                     n == NoteRecords(i)[j]
                     slurs == SlurMarkers(note_el)
                 IN  /\ Field(n, "tie") =
                            TypeOfFirst(SelectSeq(TieMarkers(note_el), HasNonEmptyType))
                     /\ Field(n, "slur") =
                            IF slurs # <<>> /\ HasNonEmptyType(Head(slurs))
                            THEN TypeOfFirst(slurs) ELSE None

\* C6 amended: tie and slur are the type of the first tie / slur marker
\* that carries a non-empty type attribute; markers before it without one
\* are skipped, later markers never change the value, and a note without
\* such a marker has no tie / slur field.
C6_FirstTypedWins ==
    Returned =>
        \A i \in 1..Len(MeasureEls) :
            /\ Len(NoteRecords(i)) = Len(NoteEls(i))
            /\ \A j \in 1..Len(NoteEls(i)) :
                 LET note_el == NoteEls(i)[j]
                     n == NoteRecords(i)[j]
                 IN  /\ Field(n, "tie") =
                            TypeOfFirst(SelectSeq(TieMarkers(note_el), HasNonEmptyType))
                     /\ Field(n, "slur") =
                            TypeOfFirst(SelectSeq(SlurMarkers(note_el), HasNonEmptyType))

\* a note with tie markers "start" then "stop", recorded as "start"
C6_Witness ==
    /\ Returned
    /\ LET ties == TieMarkers(NoteEls(1)[1])
       IN  /\ Len(ties) = 2
           /\ ties[1].attrib = ("type" :> "start")
           /\ ties[2].attrib = ("type" :> "stop")
    /\ Field(NoteRecords(1)[1], "tie") = Some("start")
    /\ Field(NoteRecords(1)[1], "slur") = Some("stop")

\* a count as the note gives it: the text of the first element of that tag
\* below the note, readable when it is not empty
Count(note_el, tag) ==
    LET els == SelectSeq(Descendants(note_el), LAMBDA e : e.tag = tag)
    IN  IF els = <<>> THEN None ELSE Head(els).text

\* C7: a note record has a tuplet field exactly when a tuplet marker of
\* type "start" is nested in the note and both the actual-notes and the
\* normal-notes count can be read from the note; it is then "actual:normal".
C7_TupletConditional ==
    Returned =>
        \A i \in 1..Len(MeasureEls) :
            \A j \in 1..Len(NoteEls(i)) :
                LET note_el == NoteEls(i)[j]
                    n == NoteRecords(i)[j]
                    actual == Count(note_el, "actual-notes")
                    normal == Count(note_el, "normal-notes")
                    started == \E k \in 1..Len(TupletMarkers(note_el)) :
                                  LET t == TupletMarkers(note_el)[k]
                                  IN  HasType(t) /\ t.attrib["type"] = "start"
                IN  Field(n, "tuplet") =
                        IF started /\ TruthyOpt(actual) /\ TruthyOpt(normal)
                        THEN Some(Val(actual) \o ":" \o Val(normal)) ELSE None

\* a tuplet "stop" marker before the "start" marker, both counts present
C7_Witness ==
    /\ Returned
    /\ LET ts == TupletMarkers(NoteEls(1)[1])
       IN  /\ Len(ts) = 2
           /\ ts[1].attrib = ("type" :> "stop")
           /\ ts[2].attrib = ("type" :> "start")
    /\ Field(NoteRecords(1)[1], "tuplet") = Some("3:2")

\* ---- whole measures: which fields a record has

MaxKids == 2

Wedge(type, number) == E("wedge", Attr("type", type) @@ Attr("number", number), None, <<>>)

Pedal(type, line) == E("pedal", Attr("type", type) @@ Attr("line", line), None, <<>>)

\* what a measure may hold
MeasureItems ==
    {Node("attributes", <<Node("key", <<Leaf("fifths", Some("-3"))>>)>>),
     Node("attributes", <<Node("key", <<Leaf("mode", Some("minor"))>>)>>),
     Node("attributes", <<Node("time", <<Leaf("beats", Some("3")), Leaf("beat-type", Some("4"))>>)>>),
     Node("attributes", <<Node("time", <<Leaf("beats", Some("3"))>>)>>),
     Direction(<<Metronome(Some("96"))>>),
     Direction(<<Metronome(None)>>),
     Direction(<<Words(Some("dim."))>>),
     Direction(<<Words(None)>>),
     Direction(<<Words(Some("  "))>>),
     Direction(<<Wedge(Some("crescendo"), Some("1"))>>),
     Direction(<<Pedal(Some("start"), Some("yes"))>>),
     Direction(<<Dynamics(<<"p">>)>>),
     Direction(<<Dynamics(<<>>)>>),
     Node("note", <<Leaf("rest", None), Leaf("type", Some("quarter"))>>),
     Node("note", <<>>),
     Node("barline", <<>>)}

\* measures of at most max children
RichMeasures(max) ==
    {Measure(number, kids) :
        number \in {None, Some("5"), Some("X1")}, kids \in SeqsUpTo(MeasureItems, max)}

PlainMeasures == {Measure(Some("2"), <<>>)}

\* documents of at most max measures, one of them rich
MeasureDocs(max) ==
    {Doc(around[1] \o <<m>> \o around[2]) :
        m \in RichMeasures(MaxKids),
        around \in {ba \in SeqsUpTo(PlainMeasures, max - 1)
                            \X SeqsUpTo(PlainMeasures, max - 1) :
                        Len(ba[1]) + Len(ba[2]) < max}}

InitMeasure == InitWith(MeasureDocs(MaxMeasures))

SpecMeasure == InitMeasure /\ [][NextJson]_vars

ListFields == {"directions", "wedges", "pedals", "dynamics", "notes"}

Below(el, tag) == SelectSeq(Descendants(el), LAMBDA e : e.tag = tag)

ChildText(el, tag) ==
    LET cs == SelectSeq(el.kids, LAMBDA e : e.tag = tag)
    IN  IF cs = <<>> THEN None ELSE Head(cs).text

Some_(seq, P(_)) == \E k \in 1..Len(seq) : P(seq[k])

\* the optional fields the measure carries information for; blank says
\* whether a words text of nothing but whitespace counts as a direction
Carried(measure_el, blank) ==
    {f \in {"key_fifths"} :
        Some_(Below(measure_el, "key"), LAMBDA k : Some_(k.kids, LAMBDA e : e.tag = "fifths"))}
    \cup {f \in {"time"} :
        Some_(Below(measure_el, "time"),
              LAMBDA t : TruthyOpt(ChildText(t, "beats")) /\ TruthyOpt(ChildText(t, "beat-type")))}
    \cup {f \in {"tempo"} :
        Some_(Below(measure_el, "metronome"), LAMBDA m : TruthyOpt(ChildText(m, "per-minute")))}
    \cup {f \in {"directions"} :
        Some_(Below(measure_el, "words"),
              LAMBDA w : IF blank THEN TruthyOpt(w.text) ELSE HasContent(w.text))}
    \cup {f \in {"wedges"} : Below(measure_el, "wedge") # <<>>}
    \cup {f \in {"pedals"} : Below(measure_el, "pedal") # <<>>}
    \cup {f \in {"dynamics"} : Some_(Below(measure_el, "dynamics"), LAMBDA d : d.kids # <<>>)}
    \cup {f \in {"notes"} : Some_(measure_el.kids, LAMBDA e : e.tag = "note")}

Sparse(blank) ==
    /\ Len(Records) = Len(MeasureEls)
    /\ \A i \in 1..Len(MeasureEls) :
         /\ "number" \in DOMAIN Records[i]
         /\ Records[i].number = NumberCaseOf(MeasureEls[i]).n
         /\ DOMAIN Records[i] \subseteq {"number"} \cup Carried(MeasureEls[i], blank)
         /\ \A f \in ListFields \cap DOMAIN Records[i] : Records[i][f] # <<>>

\* C4: every measure element yields exactly one record, in document order,
\* which has a number; an optional field is present only when the measure
\* carries that information, a list field is never an empty list, and a
\* measure that carries none of them yields a record of its number alone.
C4_SparseFields == runs = 1 => (result.exc = "none" /\ Sparse(FALSE))

\* what holds: when build_json returns, with a blank words text counted as
\* a direction
C4_SparseWhenReturned == Returned => Sparse(TRUE)

====
